---- MODULE Spec2Model ----
(***************************************************************************)
(* Job lifecycle and webhook delivery of the Aegis AI integration API.     *)
(*                                                                         *)
(* The job queue has two backings, selected when jobs/queue.py is          *)
(* imported: a broker-backed queue (BULLMQ_AVAILABLE) configured with      *)
(* attempts=3 and a worker of concurrency 5, and an in-memory fallback     *)
(* (a list, a dict and the _process_queue_background task).  Both run the  *)
(* same task body, process_analysis_job, which calls the analysis backend  *)
(* and then deliver_webhook.  All code is asyncio code: an action is the   *)
(* code a coroutine runs between two awaits.                               *)
(***************************************************************************)
EXTENDS Integers, Sequences, FiniteSets, TLC

\* ---------------------------------------------------------------- bounds
MaxSubmits == 2     \* add_analysis_job calls in one run
MaxWorkers == 2     \* init_queue calls in one run (worker loops started)
MaxPayloadKeys == 2 \* keys of a payload that is signed
MaxPool == 6        \* jobs waiting at once when the worker pool is watched
MaxClock == 2       \* ticks of the clock in one run
MaxKeys == 2        \* generate_api_key calls in one run
MaxTokenLen == 2    \* characters of a random token

\* ------------------------------------------------------ program constants
WEBHOOK_MAX_RETRIES == 3
WEBHOOK_RETRY_DELAY == 5
concurrency == 5
attempts == 3

\* job ids a caller may pass: two samples, so that submissions can collide
\* on an id or differ
JobIds == {"job_a", "job_b"}
\* the document id in a backend answer (a sample)
DocIds == {"doc_1"}
Tickets == 1..(IF MaxPool > MaxSubmits THEN MaxPool ELSE MaxSubmits)
Slots == 1..(MaxWorkers * concurrency)

\* webhook_url is Optional[str]: "None" or a subscriber URL
WebhookUrls == {"None", "http://subscriber"}

\* What the subscriber endpoint may do with one POST: answer with an HTTP
\* status, or fail at transport level (timeout, connection error).
WebhookStatuses == {200, 201, 202, 204, 500}
WebhookResponses ==
    [exc : {FALSE}, status_code : WebhookStatuses]
    \cup [exc : {TRUE}, status_code : {0}]

\* What the analysis backend may do with one upload: 200 with a document,
\* a non-200 answer, or a transport error.
BackendResponses ==
    [kind : {"ok"}, doc : DocIds, error : {""}]
    \cup [kind : {"non200"}, doc : {""}, error : {"Backend API error"}]
    \cup [kind : {"exception"}, doc : {""}, error : {"transport error"}]

VARIABLES
    BULLMQ_AVAILABLE,       \* queue.py:10-15, fixed at import
    num_workers,            \* worker loops / Worker objects started by init_queue
    in_memory_queue,        \* queue.py:23  _in_memory_queue
    in_memory_processing,   \* queue.py:24  _in_memory_processing
    bull_jobs,              \* the broker's job records, keyed by job id
    bull_wait,              \* the broker's wait list
    slots,                  \* the running process_analysis_job calls
    submitted,              \* number of add_analysis_job calls so far
    add_result,             \* outcome of the last add_analysis_job call
    sub,                    \* history of each submission (by ticket)
    wire,                   \* what a watched subscriber endpoint answered, in order
    slept,                  \* the delays a watched delivery slept, in order
    sent,                   \* the requests a watched delivery POSTed, in order
    closed,                 \* close_queue has been called (main.py:21)
    now,                    \* the clock datetime.utcnow() reads
    API_KEYS,               \* api_keys.py:8  API_KEYS
    issued,                 \* what generate_api_key returned, call by call
    validated,              \* the last validate_api_key call and its answer
    sig,                    \* a signature made, and what a receiver checks it with
    watch                   \* whether wire, slept and sent are recorded

\* the variables the job queue's own steps leave alone
aux == <<closed, now, API_KEYS, issued, validated, sig, watch>>

vars == <<BULLMQ_AVAILABLE, num_workers, in_memory_queue, in_memory_processing,
          bull_jobs, bull_wait, slots, submitted, add_result, sub, wire, slept,
          sent, closed, now, API_KEYS, issued, validated, sig, watch>>

NoJob == [job_id |-> "", webhook_url |-> "None", ticket |-> 0]

\* A worker that is not inside process_analysis_job (it is at the
\* asyncio.sleep(1) of the loop, or the broker slot is free).
IdleSlot ==
    [pc |-> "idle", job |-> NoJob, event |-> "none", retry_count |-> 0,
     sleep_for |-> 0, delivered |-> "none", ok |-> FALSE, error |-> "", doc |-> "",
     secret |-> "None"]

\* A Python dict is a function whose domain is its key set.
EmptyDict == [k \in {} |-> 0]

\* d[k] = v
dict_set(d, k, v) == [x \in (DOMAIN d) \cup {k} |-> IF x = k THEN v ELSE d[x]]

\* no signature has been made yet
NoSig == [made |-> FALSE, payload |-> <<>>, secret |-> "", signature |-> <<>>,
          checked |-> FALSE, payload2 |-> <<>>, secret2 |-> "", result |-> FALSE]

\* validate_api_key has not been called yet
NoCall == [made |-> FALSE, api_key |-> <<>>, result |-> <<>>]

AuxInit ==
    /\ sent = <<>>
    /\ closed = FALSE
    /\ now = 0
    /\ API_KEYS = EmptyDict
    /\ issued = <<>>
    /\ validated = NoCall
    /\ sig = NoSig

NoSub == [job_id |-> "", attempts |-> 0, failed_sent |-> 0, final |-> "none",
          doc |-> "", backend |-> "", created_at |-> 0]

\* The state when the application starts to serve: the module globals as
\* created at import, and init_queue called once by the lifespan handler
\* (main.py:15-22).
Started ==
    /\ num_workers = 1
    /\ in_memory_queue = <<>>
    /\ in_memory_processing = EmptyDict
    /\ bull_jobs = EmptyDict
    /\ bull_wait = <<>>
    /\ slots = [s \in Slots |-> IdleSlot]
    /\ submitted = 0
    /\ add_result = [returned |-> "", raised |-> "none"]
    /\ sub = [t \in Tickets |-> NoSub]
    /\ wire = <<>>
    /\ slept = <<>>
    /\ AuxInit

Init ==
    /\ BULLMQ_AVAILABLE \in BOOLEAN
    /\ watch = FALSE
    /\ Started

\* init_queue: starts one more background task (in-memory) or one more
\* Worker of `concurrency` slots (broker).
init_queue ==
    /\ num_workers < MaxWorkers
    /\ num_workers' = num_workers + 1
    /\ UNCHANGED <<aux, sent>>
    /\ UNCHANGED <<BULLMQ_AVAILABLE, in_memory_queue, in_memory_processing,
                   bull_jobs, bull_wait, slots, submitted, add_result, sub, wire, slept>>

\* (mutation of Capacity: no limit on the calls running at once)
Capacity_unlimited == MaxWorkers * concurrency

\* The slots a claim may use: one per background task, or `concurrency`
\* per broker Worker.
Capacity == IF BULLMQ_AVAILABLE THEN num_workers * concurrency ELSE num_workers

\* Worker loops are identical, so a claim is always taken by the free one
\* of lowest index.
FreeSlots == {s \in Slots : s <= Capacity /\ slots[s].pc = "idle"}
FreeSlot == CHOOSE s \in FreeSlots : \A o \in FreeSlots : s <= o

\* (mutation of list_append: the new entry goes to the front of the list)
list_insert_front(q, x) == <<x>> \o q

\* list.append(x) (queue.py:117)
list_append(q, x) == Append(q, x)

\* add_analysis_job(job_id, ..., webhook_url): appends to the in-memory list
\* and (re)sets the record to pending, or hands the job to the broker, which
\* keeps the existing job when the id is already known.  Returns job_id.
\* The history keeps the created_at that analyze_document, its caller, then
\* puts in the JobResponse (analyze.py:70-75): the time of the submission.
add_analysis_job(j, url) ==
    LET t == submitted + 1
        job_data == [job_id |-> j, webhook_url |-> url, ticket |-> t]
    IN
    /\ submitted < MaxSubmits
    /\ submitted' = t
    /\ sub' = [sub EXCEPT ![t] = [NoSub EXCEPT !.job_id = j, !.created_at = now]]
    /\ IF BULLMQ_AVAILABLE
         THEN /\ IF j \in DOMAIN bull_jobs
                   THEN UNCHANGED <<bull_jobs, bull_wait>>
                   ELSE /\ bull_jobs' = dict_set(bull_jobs, j,
                               [state |-> "waiting", attemptsMade |-> 0, data |-> job_data])
                        /\ bull_wait' = Append(bull_wait, j)
              /\ UNCHANGED <<in_memory_queue, in_memory_processing>>
         ELSE /\ in_memory_queue' = list_append(in_memory_queue, job_data)
              /\ in_memory_processing' =
                     dict_set(in_memory_processing, j, [status |-> "pending"])
              /\ UNCHANGED <<bull_jobs, bull_wait>>
    /\ add_result' = [returned |-> j, raised |-> "none"]
    /\ UNCHANGED <<aux, sent>>
    /\ UNCHANGED <<BULLMQ_AVAILABLE, num_workers, slots, wire, slept>>

\* (mutation of pop_rest: the head is read but stays in the list)
pop_rest_keeps_head(q) == q

\* list.pop(0): what is left of the list
pop_rest(q) == Tail(q)

\* process_analysis_job, from its entry to the await of the backend POST
\* (processor.py:10-27).
process_analysis_job_enter(job_data) ==
    [IdleSlot EXCEPT !.pc = "backend", !.job = job_data]

\* _process_queue_background, one iteration from the wake-up to the first
\* await inside process_analysis_job: pop the head, mark it processing.
process_queue_background ==
    /\ ~BULLMQ_AVAILABLE
    /\ in_memory_queue # <<>>
    /\ FreeSlots # {}
    /\ LET job_data == Head(in_memory_queue)
           job_id == job_data.job_id
       IN /\ in_memory_queue' = pop_rest(in_memory_queue)
          /\ in_memory_processing' =
                 dict_set(in_memory_processing, job_id, [status |-> "processing"])
          /\ slots' = [slots EXCEPT ![FreeSlot] = process_analysis_job_enter(job_data)]
          /\ sub' = [sub EXCEPT ![job_data.ticket].attempts = @ + 1]
    /\ UNCHANGED <<aux, sent>>
    /\ UNCHANGED <<BULLMQ_AVAILABLE, num_workers, bull_jobs, bull_wait,
                   submitted, add_result, wire, slept>>

\* The broker Worker (concurrency=5) takes the head of the wait list and
\* calls the processor with it; a closed Worker takes no more jobs.
bull_worker_claim ==
    /\ BULLMQ_AVAILABLE
    /\ ~closed
    /\ bull_wait # <<>>
    /\ FreeSlots # {}
    /\ LET job_id == Head(bull_wait)
           job_data == bull_jobs[job_id].data
       IN /\ bull_wait' = Tail(bull_wait)
          /\ bull_jobs' = [bull_jobs EXCEPT ![job_id].state = "active"]
          /\ slots' = [slots EXCEPT ![FreeSlot] = process_analysis_job_enter(job_data)]
          /\ sub' = [sub EXCEPT ![job_data.ticket].attempts = @ + 1]
    /\ UNCHANGED <<aux, sent>>
    /\ UNCHANGED <<BULLMQ_AVAILABLE, num_workers, in_memory_queue,
                   in_memory_processing, submitted, add_result, wire, slept>>

\* (mutation of is_success: only 200 counts)
is_success_only_200(status_code) == status_code = 200

\* deliver_webhook's success test on a response (delivery.py:47)
is_success(status_code) == status_code \in {200, 201, 202}

\* (mutation of may_retry: one retry too many)
may_retry_once_more(retry_count) == retry_count <= WEBHOOK_MAX_RETRIES

\* deliver_webhook's retry test (delivery.py:51 and :61)
may_retry(retry_count) == retry_count < WEBHOOK_MAX_RETRIES

\* (mutation of retry_delay: the attempt number is not applied)
retry_delay_flat(retry_count) == WEBHOOK_RETRY_DELAY

\* the delay slept before the next attempt (delivery.py:52 and :62)
retry_delay(retry_count) == WEBHOOK_RETRY_DELAY * (retry_count + 1)

\* deliver_webhook(webhook_url, event, data, secret=None, retry_count), from
\* its entry to the await of the POST.
deliver_webhook_enter(e, event, retry_count) ==
    [e EXCEPT !.pc = "post", !.event = event, !.retry_count = retry_count,
              !.sleep_for = 0, !.delivered = "none"]

\* A payload is a Python dict: key/value pairs in insertion order, no key
\* twice.  Key names in the order in which Python compares them:
KeyNames == <<"data", "event", "job_id", "timestamp">>
PayloadKeys == {KeyNames[i] : i \in 1..MaxPayloadKeys}
PayloadValues == {"x", "y"}
key_rank(k) == CHOOSE i \in 1..Len(KeyNames) : KeyNames[i] = k

Payloads ==
    {p \in UNION {[1..n -> PayloadKeys \X PayloadValues] : n \in 0..MaxPayloadKeys} :
        \A i, k \in 1..Len(p) : i # k => p[i][1] # p[k][1]}
Secrets == {"s1", "s2"}

\* dict equality: the same pairs, in whatever order
SameDict(p, q) == {p[i] : i \in 1..Len(p)} = {q[i] : i \in 1..Len(q)}

\* (mutation of json_dumps_sorted: sort_keys is left out)
json_dumps_unsorted(payload) == payload

\* json.dumps(payload, sort_keys=True): the text lists the pairs by key
json_dumps_sorted(payload) ==
    SortSeq(payload, LAMBDA a, b : key_rank(a[1]) < key_rank(b[1]))

\* hmac.new(key, msg, sha256).hexdigest(), taken as an ideal MAC: the digest
\* stands for the key and the message it was made from, and two digests
\* are equal only when both are
hmac_hexdigest(key, msg) == [key |-> key, msg |-> msg]

\* generate_signature(payload, secret) (delivery.py:68-76)
generate_signature(payload, secret) ==
    LET payload_str == json_dumps_sorted(payload)
    IN hmac_hexdigest(secret, payload_str)

\* verify_signature(payload, signature, secret) (delivery.py:78-81)
verify_signature(payload, signature, secret) ==
    LET expected == generate_signature(payload, secret)
    IN signature = expected

\* the payload dict deliver_webhook builds (delivery.py:23-27); data is
\* abridged to the job id
build_payload(event, data, timestamp) ==
    <<  <<"event", event>>, <<"data", data>>, <<"timestamp", timestamp>>  >>

\* datetime.utcnow().isoformat()
isoformat(t) == ToString(t)

\* httpx's encoding of json=payload: the pairs in the dict's own order
httpx_json(payload) == [text |-> payload]

\* the receiver's json parse of a request body
json_loads(body) == body.text

\* Python's truth value of an Optional[str]: None and "" are false
truthy(str) == str \notin {"None", ""}

\* (mutation of post_request: the signature is made once, from the payload
\* of the first attempt)
post_request_stale_signature(e) ==
    LET payload == build_payload(e.event, e.job.job_id, isoformat(now))
        first == build_payload(e.event, e.job.job_id, isoformat(0))
    IN [event |-> e.event, job_id |-> e.job.job_id,
        X_Aegis_Event |-> e.event,
        X_Aegis_Signature |-> IF truthy(e.secret)
                                THEN <<"sha256=", generate_signature(first, e.secret)>>
                                ELSE <<>>,
        body |-> httpx_json(payload)]

\* the request deliver_webhook POSTs (delivery.py:23-45); a header that is
\* not set is <<>>
post_request(e) ==
    LET payload == build_payload(e.event, e.job.job_id, isoformat(now))
    IN [event |-> e.event, job_id |-> e.job.job_id,
        X_Aegis_Event |-> e.event,
        X_Aegis_Signature |-> IF truthy(e.secret)
                                THEN <<"sha256=", generate_signature(payload, e.secret)>>
                                ELSE <<>>,
        body |-> httpx_json(payload)]

\* (mutation of deliver_webhook: the exception of the last attempt is
\* re-raised instead of answered with False)
deliver_webhook_reraises(e, resp) ==
    IF ~resp.exc
      THEN IF is_success(resp.status_code)
             THEN [e EXCEPT !.pc = "returned", !.delivered = "true"]
             ELSE IF may_retry(e.retry_count)
                    THEN [e EXCEPT !.pc = "sleep",
                                   !.sleep_for = retry_delay(e.retry_count)]
                    ELSE [e EXCEPT !.pc = "returned", !.delivered = "false"]
      ELSE IF may_retry(e.retry_count)
             THEN [e EXCEPT !.pc = "sleep",
                            !.sleep_for = retry_delay(e.retry_count)]
             ELSE [e EXCEPT !.pc = "returned", !.delivered = "raised"]

\* deliver_webhook, from the end of the POST (a response, or an exception
\* raised by it) to the next await (the backoff sleep) or to the return.
deliver_webhook(e, resp) ==
    IF ~resp.exc
      THEN IF is_success(resp.status_code)
             THEN [e EXCEPT !.pc = "returned", !.delivered = "true"]
             ELSE IF may_retry(e.retry_count)
                    THEN [e EXCEPT !.pc = "sleep",
                                   !.sleep_for = retry_delay(e.retry_count)]
                    ELSE [e EXCEPT !.pc = "returned", !.delivered = "false"]
      ELSE \* except Exception
           IF may_retry(e.retry_count)
             THEN [e EXCEPT !.pc = "sleep",
                            !.sleep_for = retry_delay(e.retry_count)]
             ELSE [e EXCEPT !.pc = "returned", !.delivered = "false"]

\* deliver_webhook after the backoff sleep: it calls itself with
\* retry_count + 1 and returns what that call returns.
deliver_webhook_retry(e) == deliver_webhook_enter(e, e.event, e.retry_count + 1)

\* (mutation of process_analysis_job_exit: a delivery that came back False
\* counts as a failure of the job)
process_analysis_job_exit_needs_delivery(e) ==
    IF e.delivered \in {"raised", "false"}
      THEN IF e.event = "analysis.completed" THEN "except" ELSE "raise"
      ELSE IF e.ok THEN "return" ELSE "raise"

\* What process_analysis_job does once deliver_webhook is back (or when there
\* was no webhook): "return", "raise", or "except" when an exception came out
\* of the analysis.completed delivery, which sits inside the try block.
process_analysis_job_exit(e) ==
    IF e.delivered = "raised"
      THEN IF e.event = "analysis.completed" THEN "except" ELSE "raise"
      ELSE IF e.ok THEN "return" ELSE "raise"

\* process_analysis_job's except block (processor.py:62-77): builds
\* error_result and delivers analysis.failed when a webhook URL was given.
process_analysis_job_except(e, error) ==
    LET e1 == [e EXCEPT !.ok = FALSE, !.error = error] IN
    IF e.job.webhook_url # "None"
      THEN deliver_webhook_enter(e1, "analysis.failed", 0)
      ELSE [e1 EXCEPT !.pc = "returned", !.delivered = "none"]

\* process_analysis_job, from the end of the backend POST to the next await:
\* builds analysis_result and delivers analysis.completed, or raises into
\* the except block.
process_analysis_job_respond(e, r) ==
    IF r.kind = "ok"
      THEN LET e1 == [e EXCEPT !.ok = TRUE, !.doc = r.doc] IN
           IF e.job.webhook_url # "None"
             THEN deliver_webhook_enter(e1, "analysis.completed", 0)
             ELSE [e1 EXCEPT !.pc = "returned"]
      ELSE process_analysis_job_except(e, r.error)

\* process_analysis_job once a deliver_webhook call is back
process_analysis_job_delivered(e) ==
    IF process_analysis_job_exit(e) = "except"
      THEN process_analysis_job_except(e, "webhook error")
      ELSE e

\* (mutation of in_memory_final: the failure of the task is not stored)
in_memory_final_drops_failure(e) ==
    IF process_analysis_job_exit(e) = "return"
      THEN [status |-> "completed"]
      ELSE [status |-> "processing"]

\* the dict the in-memory loop stores when the task returns or raises
\* (queue.py:81 and :83)
in_memory_final(e) ==
    IF process_analysis_job_exit(e) = "return"
      THEN [status |-> "completed"]
      ELSE [status |-> "failed",
            error |-> IF e.delivered = "raised" THEN "webhook error" ELSE e.error]

\* the broker's record after the processor returned or raised: completed,
\* or one more attempt made and delayed (backoff) while attempts are left,
\* else failed (queue.py:109-113)
bull_final(job, e) ==
    IF process_analysis_job_exit(e) = "return"
      THEN [job EXCEPT !.state = "completed"]
      ELSE IF job.attemptsMade + 1 < attempts
             THEN [job EXCEPT !.state = "delayed", !.attemptsMade = @ + 1]
             ELSE [job EXCEPT !.state = "failed", !.attemptsMade = @ + 1]

\* history: the analysis.failed event is handed to deliver_webhook
\* (a call with retry_count 0)
note_event(h, e) ==
    IF e.pc = "post" /\ e.retry_count = 0 /\ e.event = "analysis.failed"
      THEN [h EXCEPT !.failed_sent = @ + 1]
      ELSE h

\* history: what the backend answered to the submission's last upload
\* ("ok", or the error raised)
note_backend(h, r) == [h EXCEPT !.backend = IF r.kind = "ok" THEN "ok" ELSE r.error]

\* history: the record of a submission is finalized
note_final(h, e, status) ==
    IF status \in {"completed", "failed"}
      THEN [h EXCEPT !.final = status, !.doc = IF e.ok THEN e.doc ELSE ""]
      ELSE h

\* Slot s has run up to its next await (e.pc is "post" or "sleep") or to the
\* end of process_analysis_job (e.pc = "returned"); in the latter case the
\* caller records the outcome at once: the in-memory loop at queue.py:81-83,
\* the broker in its own job record.
continue_slot(s, e, h) ==
    LET j == e.job.job_id
        t == e.job.ticket
    IN IF e.pc # "returned"
         THEN /\ slots' = [slots EXCEPT ![s] = e]
              /\ sub' = [sub EXCEPT ![t] = note_event(h, e)]
              /\ UNCHANGED <<in_memory_processing, bull_jobs>>
         ELSE /\ slots' = [slots EXCEPT ![s] = IdleSlot]
              /\ IF BULLMQ_AVAILABLE
                   THEN /\ bull_jobs' = [bull_jobs EXCEPT ![j] = bull_final(@, e)]
                        /\ sub' = [sub EXCEPT ![t] =
                                      note_final(h, e, bull_jobs'[j].state)]
                        /\ UNCHANGED in_memory_processing
                   ELSE /\ in_memory_processing' =
                               dict_set(in_memory_processing, j, in_memory_final(e))
                        /\ sub' = [sub EXCEPT ![t] =
                                      note_final(h, e, in_memory_processing'[j].status)]
                        /\ UNCHANGED bull_jobs

\* The backend answers the upload of the job running in slot s.
backend_respond(s, r) ==
    /\ slots[s].pc = "backend"
    /\ continue_slot(s, process_analysis_job_respond(slots[s], r),
                     note_backend(sub[slots[s].job.ticket], r))
    /\ UNCHANGED <<aux, sent>>
    /\ UNCHANGED <<BULLMQ_AVAILABLE, num_workers, in_memory_queue, bull_wait,
                   submitted, add_result, wire, slept>>

\* The subscriber endpoint answers (or the POST raises) for slot s.
webhook_respond(s, resp) ==
    /\ slots[s].pc = "post"
    /\ continue_slot(s, process_analysis_job_delivered(deliver_webhook(slots[s], resp)),
                     sub[slots[s].job.ticket])
    /\ wire' = IF watch THEN Append(wire, resp) ELSE wire
    /\ sent' = IF watch THEN Append(sent, post_request(slots[s])) ELSE sent
    /\ UNCHANGED aux
    /\ UNCHANGED <<BULLMQ_AVAILABLE, num_workers, in_memory_queue, bull_wait,
                   submitted, add_result, slept>>

\* The backoff sleep of slot s ends.
webhook_retry(s) ==
    /\ slots[s].pc = "sleep"
    /\ slots' = [slots EXCEPT ![s] = deliver_webhook_retry(slots[s])]
    /\ slept' = IF watch THEN Append(slept, slots[s].sleep_for) ELSE slept
    /\ UNCHANGED <<aux, sent>>
    /\ UNCHANGED <<BULLMQ_AVAILABLE, num_workers, in_memory_queue,
                   in_memory_processing, bull_jobs, bull_wait, submitted,
                   add_result, sub, wire>>

\* The broker's backoff delay of a delayed job ends: it waits again.
bull_backoff_elapsed(j) ==
    /\ BULLMQ_AVAILABLE
    /\ j \in DOMAIN bull_jobs
    /\ bull_jobs[j].state = "delayed"
    /\ bull_jobs' = [bull_jobs EXCEPT ![j].state = "waiting"]
    /\ bull_wait' = Append(bull_wait, j)
    /\ UNCHANGED <<aux, sent>>
    /\ UNCHANGED <<BULLMQ_AVAILABLE, num_workers, in_memory_queue,
                   in_memory_processing, slots, submitted, add_result, sub,
                   wire, slept>>

Next ==
    \/ init_queue
    \/ \E j \in JobIds, url \in WebhookUrls : add_analysis_job(j, url)
    \/ process_queue_background
    \/ bull_worker_claim
    \/ \E s \in Slots, r \in BackendResponses : backend_respond(s, r)
    \/ \E s \in Slots, resp \in WebhookResponses : webhook_respond(s, resp)
    \/ \E s \in Slots : webhook_retry(s)
    \/ \E j \in JobIds : bull_backoff_elapsed(j)

Spec == Init /\ [][Next]_vars

\* ------------------------------------------- the in-memory fallback alone
\* The service when bullmq cannot be imported (queue.py:13-15): the list,
\* the dict and the background task are the whole job queue.
InitInMemory == Init /\ ~BULLMQ_AVAILABLE

NextInMemory ==
    \/ init_queue
    \/ \E j \in JobIds, url \in WebhookUrls : add_analysis_job(j, url)
    \/ process_queue_background
    \/ \E s \in Slots, r \in BackendResponses : backend_respond(s, r)
    \/ \E s \in Slots, resp \in WebhookResponses : webhook_respond(s, resp)
    \/ \E s \in Slots : webhook_retry(s)

SpecInMemory == InitInMemory /\ [][NextInMemory]_vars

\* ------------------------------------------------- one delivery, watched
\* the secret argument of deliver_webhook: None (the default), "" or a secret
DeliverSecrets == {"None", "", "s1"}

\* A single deliver_webhook call (retry_count 0) against an endpoint whose
\* answers, and the requests and the sleeps between them, are recorded; the
\* clock moves on with every sleep.
InitDeliver ==
    /\ BULLMQ_AVAILABLE = FALSE
    /\ num_workers = 1
    /\ in_memory_queue = <<>>
    /\ in_memory_processing = EmptyDict
    /\ bull_jobs = EmptyDict
    /\ bull_wait = <<>>
    /\ \E j \in JobIds, event \in {"analysis.completed", "analysis.failed"},
          secret \in DeliverSecrets :
          slots = [s \in Slots |->
                     IF s = 1
                       THEN deliver_webhook_enter(
                               [IdleSlot EXCEPT !.job = [job_id |-> j,
                                                         webhook_url |-> "http://subscriber",
                                                         ticket |-> 1],
                                                !.secret = secret],
                               event, 0)
                       ELSE IdleSlot]
    /\ submitted = 0
    /\ add_result = [returned |-> "", raised |-> "none"]
    /\ sub = [t \in Tickets |-> NoSub]
    /\ wire = <<>>
    /\ slept = <<>>
    /\ AuxInit
    /\ watch = TRUE

\* The endpoint answers the POST of the watched call.
deliver_post(resp) ==
    /\ slots[1].pc = "post"
    /\ slots' = [slots EXCEPT ![1] = deliver_webhook(slots[1], resp)]
    /\ wire' = Append(wire, resp)
    /\ sent' = Append(sent, post_request(slots[1]))
    /\ UNCHANGED aux
    /\ UNCHANGED <<BULLMQ_AVAILABLE, num_workers, in_memory_queue,
                   in_memory_processing, bull_jobs, bull_wait, submitted,
                   add_result, sub, slept>>

\* The watched call sleeps its backoff delay and tries again.
deliver_sleep ==
    /\ slots[1].pc = "sleep"
    /\ slots' = [slots EXCEPT ![1] = deliver_webhook_retry(slots[1])]
    /\ slept' = Append(slept, slots[1].sleep_for)
    /\ now' = now + slots[1].sleep_for
    /\ UNCHANGED <<sent, closed, API_KEYS, issued, validated, sig, watch>>
    /\ UNCHANGED <<BULLMQ_AVAILABLE, num_workers, in_memory_queue,
                   in_memory_processing, bull_jobs, bull_wait, submitted,
                   add_result, sub, wire>>

NextDeliver ==
    \/ \E resp \in WebhookResponses : deliver_post(resp)
    \/ deliver_sleep

SpecDeliver == InitDeliver /\ [][NextDeliver]_vars

\* The steps of the worker loops and of the calls they wait for.
WorkerNext ==
    \/ process_queue_background
    \/ \E s \in Slots, r \in BackendResponses : backend_respond(s, r)
    \/ \E s \in Slots, resp \in WebhookResponses : webhook_respond(s, resp)
    \/ \E s \in Slots : webhook_retry(s)

\* The in-memory queue as the application runs it: init_queue is called
\* once (main.py:17), so there is one worker loop.
NextOneLoop ==
    \/ \E j \in JobIds, url \in WebhookUrls : add_analysis_job(j, url)
    \/ process_queue_background
    \/ \E s \in Slots, r \in BackendResponses : backend_respond(s, r)
    \/ \E s \in Slots, resp \in WebhookResponses : webhook_respond(s, resp)
    \/ \E s \in Slots : webhook_retry(s)

\* ... on an event loop that keeps running: a worker loop that can take a
\* step takes one (it polls every second, queue.py:84), and every backend
\* call, POST and sleep it awaits comes back (each has a timeout:
\* processor.py:22, delivery.py:40).
SpecOneLoopFair == InitInMemory /\ [][NextOneLoop]_vars /\ WF_vars(WorkerNext)

\* ------------------------------------------------- one job, watched
\* The in-memory queue with a single submission, whose exchange with the
\* subscriber endpoint (requests, answers, sleeps) is recorded.
InitWatched ==
    /\ BULLMQ_AVAILABLE = FALSE
    /\ watch = TRUE
    /\ Started

NextWatched ==
    \/ \E j \in JobIds, url \in WebhookUrls : submitted = 0 /\ add_analysis_job(j, url)
    \/ process_queue_background
    \/ \E s \in Slots, r \in BackendResponses : backend_respond(s, r)
    \/ \E s \in Slots, resp \in WebhookResponses : webhook_respond(s, resp)
    \/ \E s \in Slots : webhook_retry(s)

SpecWatched == InitWatched /\ [][NextWatched]_vars

\* ------------------------------------------------- the worker pool, loaded
\* More jobs than the pool has slots are waiting (submitted without a
\* webhook URL, before any was claimed); one Worker, or one worker loop; the
\* backend answers every upload with 200.
PoolNames == <<"job_1", "job_2", "job_3", "job_4", "job_5", "job_6", "job_7", "job_8">>
PoolJobIds == {PoolNames[i] : i \in 1..MaxPool}
pool_job(i) == [job_id |-> PoolNames[i], webhook_url |-> "None", ticket |-> i]

InitPool ==
    /\ BULLMQ_AVAILABLE \in BOOLEAN
    /\ watch = FALSE
    /\ num_workers = 1
    /\ in_memory_queue =
          IF BULLMQ_AVAILABLE THEN <<>> ELSE [i \in 1..MaxPool |-> pool_job(i)]
    /\ in_memory_processing =
          IF BULLMQ_AVAILABLE THEN EmptyDict
                              ELSE [j \in PoolJobIds |-> [status |-> "pending"]]
    /\ bull_jobs =
          IF BULLMQ_AVAILABLE
            THEN [j \in PoolJobIds |->
                     [state |-> "waiting", attemptsMade |-> 0,
                      data |-> pool_job(CHOOSE i \in 1..MaxPool : PoolNames[i] = j)]]
            ELSE EmptyDict
    /\ bull_wait = IF BULLMQ_AVAILABLE THEN [i \in 1..MaxPool |-> PoolNames[i]] ELSE <<>>
    /\ slots = [s \in Slots |-> IdleSlot]
    /\ submitted = MaxPool
    /\ add_result = [returned |-> PoolNames[MaxPool], raised |-> "none"]
    /\ sub = [t \in Tickets |->
                IF t <= MaxPool THEN [NoSub EXCEPT !.job_id = PoolNames[t]] ELSE NoSub]
    /\ wire = <<>>
    /\ slept = <<>>
    /\ AuxInit

PoolResponses == {r \in BackendResponses : r.kind = "ok"}

NextPool ==
    \/ process_queue_background
    \/ bull_worker_claim
    \/ \E s \in Slots, r \in PoolResponses : backend_respond(s, r)

SpecPool == InitPool /\ [][NextPool]_vars

\* ------------------------------------------------- shutdown
\* close_queue, called once by the lifespan handler when the application
\* shuts down (main.py:21): it closes the broker's worker, queue and events
\* when the broker is in use, and otherwise only prints a message; the
\* background task started by init_queue is not referenced by it.
close_queue ==
    /\ ~closed
    /\ closed' = TRUE
    /\ UNCHANGED <<BULLMQ_AVAILABLE, num_workers, in_memory_queue,
                   in_memory_processing, bull_jobs, bull_wait, slots, submitted,
                   add_result, sub, wire, slept, sent, now, API_KEYS, issued, validated,
                   sig, watch>>

NextShutdown ==
    \/ init_queue
    \/ \E j \in JobIds, url \in WebhookUrls : add_analysis_job(j, url)
    \/ process_queue_background
    \/ \E s \in Slots, r \in BackendResponses : backend_respond(s, r)
    \/ \E s \in Slots, resp \in WebhookResponses : webhook_respond(s, resp)
    \/ \E s \in Slots : webhook_retry(s)
    \/ close_queue

\* the in-memory queue, with the shutdown
SpecShutdown == InitInMemory /\ [][NextShutdown]_vars

\* ------------------------------------------------- signatures
\* a sender signs a payload
sign(payload, secret) ==
    /\ ~sig.made
    /\ sig' = [NoSig EXCEPT !.made = TRUE, !.payload = payload, !.secret = secret,
                             !.signature = generate_signature(payload, secret)]
    /\ UNCHANGED <<BULLMQ_AVAILABLE, num_workers, in_memory_queue,
                   in_memory_processing, bull_jobs, bull_wait, slots, submitted,
                   add_result, sub, wire, slept, sent, closed, now, API_KEYS,
                   issued, validated, watch>>

\* a receiver verifies the signature against a payload and a secret of its own
verify(payload2, secret2) ==
    /\ sig.made /\ ~sig.checked
    /\ sig' = [sig EXCEPT !.checked = TRUE, !.payload2 = payload2, !.secret2 = secret2,
                           !.result = verify_signature(payload2, sig.signature, secret2)]
    /\ UNCHANGED <<BULLMQ_AVAILABLE, num_workers, in_memory_queue,
                   in_memory_processing, bull_jobs, bull_wait, slots, submitted,
                   add_result, sub, wire, slept, sent, closed, now, API_KEYS,
                   issued, validated, watch>>

NextSignature ==
    \/ \E p \in Payloads, s \in Secrets : sign(p, s)
    \/ \E p \in Payloads, s \in Secrets : verify(p, s)

SpecSignature == Init /\ [][NextSignature]_vars

\* ------------------------------------------------- the clock
\* Time passes: datetime.utcnow() reads a later time.
tick ==
    /\ now < MaxClock
    /\ now' = now + 1
    /\ UNCHANGED <<BULLMQ_AVAILABLE, num_workers, in_memory_queue,
                   in_memory_processing, bull_jobs, bull_wait, slots, submitted,
                   add_result, sub, wire, slept, sent, closed, API_KEYS, issued, validated,
                   sig, watch>>

NextClock ==
    \/ \E j \in JobIds, url \in WebhookUrls : add_analysis_job(j, url)
    \/ process_queue_background
    \/ \E s \in Slots, r \in BackendResponses : backend_respond(s, r)
    \/ \E s \in Slots, resp \in WebhookResponses : webhook_respond(s, resp)
    \/ \E s \in Slots : webhook_retry(s)
    \/ tick

\* the in-memory queue with one worker loop, and time passing
SpecClock == InitInMemory /\ [][NextClock]_vars

\* ------------------------------------------------- API keys
\* Strings are sequences of characters.  secrets.token_urlsafe draws from
\* the URL-safe base64 alphabet, which has letters, digits, "-" and "_":
\* a letter and the underscore stand for it.
TokenChars == {"a", "_"}
Tokens == UNION {[1..n -> TokenChars] : n \in 1..MaxTokenLen}
KeyPrefix == <<"k", "e", "y", "_">>

\* hashlib.sha256(s.encode()).hexdigest(), taken as an ideal hash: equal
\* digests only for equal strings
sha256_hexdigest(str) == [sha256 |-> str]

\* the positions of sep in str
positions(str, sep) == {i \in 1..Len(str) : str[i] = sep}

\* str.split(sep, 1): the parts before and after the first separator, or
\* the string alone when it has none
split_once(str, sep) ==
    IF positions(str, sep) = {}
      THEN <<str>>
      ELSE LET i == CHOOSE p \in positions(str, sep) : \A q \in positions(str, sep) : p <= q
           IN <<SubSeq(str, 1, i - 1), SubSeq(str, i + 1, Len(str))>>

\* generate_api_key(): token and secret are the two random draws; the draw
\* of a key id already in use does not happen (128 random bits)
generate_api_key(token, secret) ==
    LET key_id == KeyPrefix \o token
        full_key == key_id \o <<"_">> \o secret
        hashed == sha256_hexdigest(secret)
    IN /\ Len(issued) < MaxKeys
       /\ key_id \notin DOMAIN API_KEYS
       /\ API_KEYS' = dict_set(API_KEYS, key_id,
                          [key_id |-> key_id, hashed_secret |-> hashed,
                           created_at |-> now, last_used |-> <<>>,
                           rate_limit |-> 100, tier |-> "free", active |-> TRUE])
       /\ issued' = Append(issued, [key_id |-> key_id, full_key |-> full_key])
       /\ UNCHANGED <<BULLMQ_AVAILABLE, num_workers, in_memory_queue,
                      in_memory_processing, bull_jobs, bull_wait, slots, submitted,
                      add_result, sub, wire, slept, sent, closed, now, validated,
                      sig, watch>>

\* validate_api_key(api_key): the key's record with last_used set, or
\* <<>> for None
validate_api_key(api_key) ==
    LET parts == split_once(api_key, "_") IN
    IF Len(parts) # 2
      THEN [result |-> <<>>, store |-> API_KEYS]
      ELSE LET key_id == parts[1]
               secret == parts[2]
           IN IF key_id \notin DOMAIN API_KEYS \/ ~API_KEYS[key_id].active
                THEN [result |-> <<>>, store |-> API_KEYS]
                ELSE IF sha256_hexdigest(secret) # API_KEYS[key_id].hashed_secret
                       THEN [result |-> <<>>, store |-> API_KEYS]
                       ELSE LET key_info == [API_KEYS[key_id] EXCEPT !.last_used = <<now>>]
                            IN [result |-> <<key_info>>,
                                store |-> [API_KEYS EXCEPT ![key_id] = key_info]]

\* a full key whose last character, in the secret part, is another one
alter_secret(full_key) ==
    [full_key EXCEPT ![Len(full_key)] = IF @ = "a" THEN "_" ELSE "a"]

\* api_key_middleware calls validate_api_key with the key of a request
\* (middleware.py:23-24)
validate(api_key) ==
    /\ validated' = [made |-> TRUE, api_key |-> api_key,
                     result |-> validate_api_key(api_key).result]
    /\ API_KEYS' = validate_api_key(api_key).store
    /\ UNCHANGED <<BULLMQ_AVAILABLE, num_workers, in_memory_queue,
                   in_memory_processing, bull_jobs, bull_wait, slots, submitted,
                   add_result, sub, wire, slept, sent, closed, now, issued,
                   sig, watch>>

\* the keys a client presents: the ones it was given, as given or with the
\* secret altered
PresentedKeys ==
    {issued[i].full_key : i \in 1..Len(issued)}
    \cup {alter_secret(issued[i].full_key) : i \in 1..Len(issued)}

NextKeys ==
    \/ \E token \in Tokens, secret \in Tokens : generate_api_key(token, secret)
    \/ \E k \in PresentedKeys : validate(k)

SpecKeys == Init /\ [][NextKeys]_vars

\* ------------------------------------------------------------ the queries
\* get_job's status_map (endpoints/jobs.py:25-31)
status_map ==
    [waiting |-> "pending", active |-> "processing", completed |-> "completed",
     failed |-> "failed", delayed |-> "pending"]

\* dict.get(key, default)
dict_get(d, k, default) == IF k \in DOMAIN d THEN d[k] ELSE default

\* get_job_status(job_id): <<>> is None
get_job_status(j) ==
    IF BULLMQ_AVAILABLE
      THEN IF j \in DOMAIN bull_jobs
             THEN <<[job_id |-> j, status |-> bull_jobs[j].state,
                     data |-> bull_jobs[j].data]>>
             ELSE <<>>
      ELSE IF j \in DOMAIN in_memory_processing
             THEN <<[job_id |-> j,
                     status |-> dict_get(in_memory_processing[j], "status", "unknown"),
                     data |-> in_memory_processing[j]]>>
             ELSE <<>>

\* get_job(job_id): the JobStatusResponse, or the 404; an Optional field is
\* <<>> (None) or <<value>>
get_job(j) ==
    LET job_info == get_job_status(j) IN
    IF job_info = <<>>
      THEN [http |-> 404, job_id |-> j, status |-> "", created_at |-> now,
            completed_at |-> <<>>, result |-> <<>>, error |-> <<>>]
      ELSE LET job_status == dict_get(status_map, job_info[1].status, "unknown")
               job_data == job_info[1].data
           IN [http |-> 200, job_id |-> j, status |-> job_status,
               created_at |-> now,
               completed_at |-> IF job_status \in {"completed", "failed"}
                                  THEN <<now>> ELSE <<>>,
               result |-> IF job_status = "completed" /\ "result" \in DOMAIN job_data
                            THEN <<job_data.result>> ELSE <<>>,
               error |-> IF job_status = "failed"
                           THEN <<"Job processing failed">> ELSE <<>>]

\* The status the job store holds for a job id, in the words of the job
\* lifecycle (the broker's states read through status_map).
JobStatus(j) ==
    IF BULLMQ_AVAILABLE
      THEN IF j \in DOMAIN bull_jobs THEN status_map[bull_jobs[j].state] ELSE "absent"
      ELSE IF j \in DOMAIN in_memory_processing
             THEN in_memory_processing[j].status ELSE "absent"

JobKnown(j) == JobStatus(j) # "absent"

BusySlots == {s \in Slots : slots[s].pc # "idle"}

\* ------------------------------------------------------------- the claims

\* C1: a job's stored status only moves pending -> processing -> completed
\* or failed; it never goes back and never leaves completed or failed.
C1_Moves ==
    {<<"absent", "pending">>, <<"pending", "processing">>,
     <<"processing", "completed">>, <<"processing", "failed">>}
C1_StatusOnlyMovesForward ==
    [][\A j \in JobIds :
          JobStatus(j)' # JobStatus(j) => <<JobStatus(j), JobStatus(j)'>> \in C1_Moves]_vars

\* an answer that does not deliver: a status outside 200/201/202, or a
\* transport exception
Failing(resp) == resp.exc \/ resp.status_code \notin {200, 201, 202}
AllFailing(w) == \A i \in 1..Len(w) : Failing(w[i])

\* C2 (as stated): against an endpoint that fails every attempt,
\* deliver_webhook returns false after exactly 3 POST attempts.
C2_FalseAfterThreePosts ==
    (slots[1].pc = "returned" /\ AllFailing(wire))
        => (slots[1].delivered = "false" /\ Len(wire) = 3)

\* C2 (amended): against an endpoint that fails every attempt,
\* deliver_webhook returns false after exactly 4 POST attempts (the first
\* one and 3 retries), and it has not returned before the 4th.
C2_FalseAfterFourPosts ==
    AllFailing(wire) =>
        /\ Len(wire) <= 4
        /\ (Len(wire) < 4 => slots[1].pc \in {"post", "sleep"})
        /\ (Len(wire) = 4 => slots[1].pc = "returned" /\ slots[1].delivered = "false")

C2_Witness ==
    /\ slots[1].pc = "returned"
    /\ slots[1].delivered = "false"
    /\ Len(wire) = 4
    /\ AllFailing(wire)
    /\ \E i, k \in 1..Len(wire) : wire[i].exc /\ ~wire[k].exc

\* C3: whenever a webhook POST is in flight for a job, the job's stored
\* status is already the terminal one the event announces.
C3_FinalizedBeforeDelivery ==
    \A s \in Slots :
        slots[s].pc = "post" =>
            JobStatus(slots[s].job.job_id) =
                (IF slots[s].event = "analysis.completed" THEN "completed" ELSE "failed")

\* C4: the status query gives a result iff the job is completed and an error
\* iff it is failed, neither before; a completed job's result carries the
\* backend's document id.
C4_ResultXorError ==
    \A j \in JobIds :
        LET r == get_job(j) IN
        r.http = 200 =>
            /\ (r.result # <<>>) <=> (r.status = "completed")
            /\ (r.error # <<>>) <=> (r.status = "failed")
            /\ r.status = "completed" =>
                  \E t \in Tickets :
                      /\ sub[t].job_id = j
                      /\ sub[t].final = "completed"
                      /\ r.result # <<>>
                      /\ r.result[1].document_id = sub[t].doc

\* C5: a job is stored as failed only after 3 executions, never after fewer.
C5_FailedAfterThreeExecutions ==
    \A t \in Tickets : sub[t].final = "failed" => sub[t].attempts = 3

\* C6: add_analysis_job for a job id that already has a record fails with
\* DuplicateId and leaves the record and the pending queue as they were; for
\* a new id it succeeds.
C6_DuplicateIdRejected ==
    [][\A j \in JobIds, url \in WebhookUrls :
          add_analysis_job(j, url) =>
              IF JobKnown(j)
                THEN /\ add_result'.raised = "DuplicateId"
                     /\ UNCHANGED <<in_memory_queue, in_memory_processing,
                                    bull_jobs, bull_wait>>
                ELSE add_result'.raised = "none" /\ add_result'.returned = j]_vars

\* where a submission is: entries of the pending list, slots running it
InQueue(t) == Cardinality({i \in 1..Len(in_memory_queue) : in_memory_queue[i].ticket = t})
Held(t) == Cardinality({s \in Slots : slots[s].pc # "idle" /\ slots[s].job.ticket = t})

\* C7: with any number of worker loops, a submission is claimed by at most
\* one of them: no two slots ever run the same submission, and in the
\* in-memory queue each submission is in exactly one place (pending list,
\* one worker, or finished) and is claimed at most once.
C7_AtMostOneClaimant ==
    /\ \A t \in Tickets : Held(t) <= 1
    /\ ~BULLMQ_AVAILABLE =>
          \A t \in 1..submitted :
              /\ sub[t].attempts <= 1
              /\ InQueue(t) + Held(t) + (IF sub[t].final # "none" THEN 1 ELSE 0) = 1
              /\ InQueue(t) = 1 <=> sub[t].attempts = 0

C7_Witness ==
    /\ ~BULLMQ_AVAILABLE
    /\ num_workers >= 2
    /\ submitted = 1
    /\ in_memory_queue = <<>>
    /\ Held(1) = 1
    /\ Cardinality(BusySlots) = 1
    /\ Cardinality(FreeSlots) >= 1

\* C8: analysis.failed is handed to the dispatcher at most once per job, and
\* never for a job that ends completed.
C8_FailedEventOnlyOnFinalFailure ==
    \A t \in Tickets :
        /\ sub[t].failed_sent <= 1
        /\ sub[t].final = "completed" => sub[t].failed_sent = 0

\* C9: against an endpoint that fails twice and then accepts,
\* deliver_webhook returns true after exactly 3 POSTs, having slept base*1
\* and then base*2.
C9_ThirdAttemptDelivers ==
    (/\ Len(wire) = 3
     /\ Failing(wire[1]) /\ Failing(wire[2]) /\ ~Failing(wire[3]))
        => /\ slots[1].pc = "returned"
           /\ slots[1].delivered = "true"
           /\ slept = <<WEBHOOK_RETRY_DELAY * 1, WEBHOOK_RETRY_DELAY * 2>>
           /\ slept[1] < slept[2]

C9_Witness ==
    /\ Len(wire) = 3
    /\ wire[1].exc /\ ~wire[2].exc /\ Failing(wire[2]) /\ ~Failing(wire[3])
    /\ slots[1].delivered = "true"
    /\ slept = <<5, 10>>

\* C10: deliver_webhook returns true iff one of its POSTs was answered with
\* 200, 201 or 202, false otherwise, and never raises.
C10_TrueIffAccepted ==
    /\ slots[1].delivered # "raised"
    /\ Len(wire) <= WEBHOOK_MAX_RETRIES + 1
    /\ slots[1].pc = "returned" =>
          /\ slots[1].delivered \in {"true", "false"}
          /\ slots[1].delivered = "true" <=> \E i \in 1..Len(wire) : ~Failing(wire[i])
    /\ slots[1].pc # "returned" => AllFailing(wire)

C10_Witness ==
    /\ slots[1].pc = "returned"
    /\ slots[1].delivered = "false"
    /\ Len(wire) > 0
    /\ wire[Len(wire)].exc

\* the record the in-memory loop stores for a backend outcome
StoredFor(backend) ==
    IF backend = "ok" THEN [status |-> "completed"]
                      ELSE [status |-> "failed", error |-> backend]

\* C11: the stored record of a job is determined by the backend outcome
\* alone, whatever the subscriber endpoint answers: it stays "processing"
\* from the claim to the end of the delivery (deliver_webhook writes nothing)
\* and is then completed iff the backend answered ok, failed with the
\* backend's error otherwise.
C11_StatusFromBackendOnly ==
    \A t \in 1..submitted :
        LET rec == in_memory_processing[sub[t].job_id] IN
        /\ (sub[t].attempts = 1 /\ sub[t].final = "none") => rec = [status |-> "processing"]
        /\ sub[t].final # "none" => rec = StoredFor(sub[t].backend)

C11_Witness ==
    /\ submitted = 1
    /\ sub[1].backend = "ok"
    /\ sub[1].final = "completed"
    /\ Len(wire) = WEBHOOK_MAX_RETRIES + 1
    /\ AllFailing(wire)

\* C12: for every submitted job, at every moment, get_job answers with a
\* status among pending, processing, completed, failed that equals the
\* job's status in the job store; for an id never submitted it answers 404.
C12_QueryReturnsStoredStatus ==
    \A j \in JobIds :
        LET r == get_job(j) IN
        IF JobKnown(j)
          THEN /\ r.http = 200
               /\ r.status \in {"pending", "processing", "completed", "failed"}
               /\ r.status = JobStatus(j)
          ELSE r.http = 404
\* C13: for a job submitted with a webhook URL whose backend call succeeds
\* and whose subscriber accepts the first POST (200, 201 or 202), the
\* subscriber receives exactly one POST for that job, its event is
\* analysis.completed, and none is analysis.failed; the job ends completed.
C13_OnePostWhenAccepted ==
    (/\ submitted = 1
     /\ sub[1].backend = "ok"
     /\ Len(wire) >= 1
     /\ ~Failing(wire[1]))
        => /\ Len(sent) = 1
           /\ sent[1].event = "analysis.completed"
           /\ sent[1].job_id = sub[1].job_id
           /\ \A i \in 1..Len(sent) : sent[i].event # "analysis.failed"
           /\ BusySlots = {}
           /\ sub[1].final = "completed"

C13_Witness ==
    /\ submitted = 1
    /\ sub[1].backend = "ok"
    /\ sub[1].final = "completed"
    /\ Len(sent) = 1
    /\ Len(wire) = 1
    /\ wire[1].status_code = 201
\* C14: once close_queue has been called no worker claims a further job: a
\* job that is pending is not moved to processing by any later step (jobs
\* already processing may still end).
C14_NoClaimAfterShutdown ==
    [][closed =>
          \A j \in JobIds :
              JobStatus(j) = "pending" => JobStatus(j)' # "processing"]_vars
\* C15: a signature made by generate_signature(payload, secret) verifies
\* against a payload and a secret iff the payload is the same dict (the same
\* pairs, in whatever key order) and the secret is the same: the round trip
\* is true, a changed payload or secret gives false, and key order does not
\* change the signature.
C15_SignatureRoundTrip ==
    sig.checked =>
        /\ sig.result <=> (SameDict(sig.payload, sig.payload2) /\ sig.secret = sig.secret2)
        /\ SameDict(sig.payload, sig.payload2) =>
              generate_signature(sig.payload2, sig.secret) = sig.signature

C15_Witness ==
    /\ sig.checked
    /\ sig.result
    /\ Len(sig.payload) = 2
    /\ sig.payload # sig.payload2
\* C16: on an event loop that keeps running, every submission reaches a
\* terminal state (completed or failed), whatever happens to the jobs
\* before it.
C16_EverySubmissionEnds ==
    \A t \in 1..MaxSubmits :
        (submitted >= t) ~> (sub[t].final \in {"completed", "failed"})

C16_Witness ==
    /\ num_workers = 1
    /\ submitted = 2
    /\ sub[1].final = "failed"
    /\ sub[1].failed_sent = 1
    /\ sub[2].final = "completed"
Processing == {j \in PoolJobIds : JobStatus(j) = "processing"}

\* C18: at every moment at most `concurrency` (5) jobs are processing,
\* however many are waiting.
C18_AtMostConcurrencyProcessing ==
    /\ Cardinality(Processing) <= concurrency
    /\ Cardinality(BusySlots) <= concurrency

C18_Witness ==
    /\ Cardinality(Processing) = concurrency
    /\ bull_wait # <<>>
\* C19: the creation time get_job reports for a job is the time of its
\* submission, the one the submit response gave, at every later query.
C19_CreatedAtIsSubmissionTime ==
    \A t \in 1..submitted :
        LET r == get_job(sub[t].job_id) IN
        r.http = 200 => r.created_at = sub[t].created_at
\* C20: validate_api_key applied to a full key that generate_api_key
\* returned gives that key's info record (not None); applied to the full
\* key with its secret part altered it gives None.
C20_KeyRoundTrip ==
    validated.made =>
        \A i \in 1..Len(issued) :
            /\ validated.api_key = issued[i].full_key =>
                  /\ validated.result # <<>>
                  /\ validated.result[1].key_id = issued[i].key_id
            /\ validated.api_key = alter_secret(issued[i].full_key) =>
                  validated.result = <<>>
\* a submission has been claimed by a worker loop (it has entered processing)
Claimed(t) == sub[t].attempts >= 1

\* C21: in the in-memory queue submissions are claimed in the order of
\* their add_analysis_job calls: whenever a submission has entered
\* processing, every earlier submission has entered it before, and the
\* pending list holds the unclaimed submissions oldest first.
C21_ClaimedInSubmissionOrder ==
    /\ \A a, b \in 1..submitted : (a < b /\ Claimed(b)) => Claimed(a)
    /\ \A i, k \in 1..Len(in_memory_queue) :
          i < k => in_memory_queue[i].ticket < in_memory_queue[k].ticket
    /\ \A i \in 1..Len(in_memory_queue), t \in 1..submitted :
          Claimed(t) => t < in_memory_queue[i].ticket

C21_Witness ==
    /\ submitted = 2
    /\ sub[1].job_id # sub[2].job_id
    /\ Claimed(1) /\ Claimed(2)
    /\ Held(1) = 1 /\ Held(2) = 1

\* C22: in the in-memory queue a job id that add_analysis_job has returned
\* for always has a record (get_job_status is never None for it again), and
\* every entry of the pending list has stored status pending.
C22_RecordKeptAndPendingWhileQueued ==
    /\ \A t \in 1..submitted : get_job_status(sub[t].job_id) # <<>>
    /\ \A i \in 1..Len(in_memory_queue) :
          LET r == get_job_status(in_memory_queue[i].job_id) IN
          r # <<>> /\ r[1].status = "pending"
====
